---- MODULE Spec2Model ----
(***************************************************************************)
(* Model of the RSS article actions (src/actions/rss-article.ts):          *)
(* createRssArticle, bulkCreateRssArticles, getArticlesByFeedsAndDateRange *)
(* running against the rssArticle collection.  Every store operation the   *)
(* code awaits is one atomic step; callers interleave between them.        *)
(* Spec: one bulkCreateRssArticles caller and direct createRssArticle       *)
(* callers racing on the collection.  SpecQuery: createRssArticle calls    *)
(* interleaved, one store operation per step, with                         *)
(* getArticlesByFeedsAndDateRange queries.  SpecAuthor: getAuthorString.   *)
(* SpecUI: the newsletter generation page (src/app/dashboard/layout.tsx).  *)
(***************************************************************************)
EXTENDS Integers, Sequences, FiniteSets, Bags, TLC

\* ---------------------------------------------------------------- bounds
\* Spec: guids and feeds the concurrent callers contend for, batch length.
NumGuids == 1
NumFeeds == 3
MaxBatch == 2
\* SpecQuery: guids and feeds of the ingested articles, createRssArticle calls
\* (recorded sources plus calls in progress), publication dates, largest
\* explicit limit.
MaxArticles == 2
NumSources == 2
MaxCalls == 3
MaxDate == 2
MaxLimit == 2
\* limit = 100, the default of getArticlesByFeedsAndDateRange.
DefaultLimit == 100

Guids == 1..NumGuids
Feeds == 1..NumFeeds
Dates == 1..MaxDate
StoredGuids == 1..MaxArticles
QueryFeeds == 1..NumSources
\* limit: every explicit limit up to MaxLimit, and the default.
Limits == (0..MaxLimit) \cup {DefaultLimit}
\* [startDate, endDate]: the first day, the last day, all days, and all days
\* with the ends swapped.
Windows == { << 1, 1 >>, << MaxDate, MaxDate >>, << 1, MaxDate >>, << MaxDate, 1 >> }
\* feedIds: no feed, the first feed, the last feed, every feed.
FeedSets == { {}, {1}, {NumSources}, QueryFeeds }
DirectCallers == {"d1"}
Procs == {"bulk"} \cup DirectCallers

\* ------------------------------------------------- JavaScript values
\* An author value as delivered by the RSS parser: t is the typeof/shape tag,
\* s the string when t = "string", name the .name property when t = "object"
\* (nt its shape tag, ns its string, na its array elements).  A number or
\* boolean carries its literal in s (ns for a name).
NoName == [nt |-> "undefined", ns |-> "", na |-> <<>>]
JsNull == [t |-> "null", s |-> "", name |-> NoName]
JsUndefined == [t |-> "undefined", s |-> "", name |-> NoName]
JsString(str) == [t |-> "string", s |-> str, name |-> NoName]
JsPrimitive(type, lit) == [t |-> type, s |-> lit, name |-> NoName]
JsNumber == JsPrimitive("number", "7")
JsObjNameString(str) == [t |-> "object", s |-> "", name |-> [nt |-> "string", ns |-> str, na |-> <<>>]]
JsObjNameArray(arr) == [t |-> "object", s |-> "", name |-> [nt |-> "array", ns |-> "", na |-> arr]]
JsObjNoName == [t |-> "object", s |-> "", name |-> NoName]

AuthorShapes ==
  << JsString("Ann"), JsNull, JsObjNameArray(<<"Ann", "Bob">>), JsObjNameString("Cy"),
     JsUndefined, JsObjNoName, JsString(""), JsObjNameArray(<<>>), JsObjNameString(""),
     JsNumber, JsObjNameArray(<<"Dee">>) >>

\* The result of getAuthorString: string | null.
NullStr == [isNull |-> TRUE, str |-> ""]
Str(x) == [isNull |-> FALSE, str |-> x]

RECURSIVE Join(_, _)
Join(arr, sep) ==
  IF Len(arr) = 0 THEN ""
  ELSE IF Len(arr) = 1 THEN arr[1]
  ELSE arr[1] \o sep \o Join(Tail(arr), sep)

\* JavaScript truthiness of a value of the given type with the given literal:
\* null, undefined, "", 0, -0, NaN and false are falsy, objects and arrays
\* are truthy.
JsTruthy(type, lit) ==
  CASE type \in {"null", "undefined"} -> FALSE
    [] type = "string" -> lit # ""
    [] type = "number" -> lit \notin {"0", "-0", "NaN"}
    [] type = "boolean" -> lit = "true"
    [] OTHER -> TRUE

\* JavaScript truthiness of the author value (!author).
AuthorTruthy(author) == JsTruthy(author.t, author.s)

\* JavaScript truthiness of author.name.
NameTruthy(name) == JsTruthy(name.nt, name.ns)

\* getAuthorString without the falsy-author early return for strings.
getAuthorStringKeepEmpty(author) ==
  IF author.t = "string" THEN Str(author.s)
  ELSE IF ~AuthorTruthy(author) THEN NullStr
  ELSE IF author.t = "object" /\ NameTruthy(author.name)
         /\ author.name.nt = "array" THEN Str(Join(author.name.na, ", "))
  ELSE IF author.t = "object" /\ NameTruthy(author.name)
         /\ author.name.nt = "string" THEN Str(author.name.ns)
  ELSE NullStr

getAuthorString(author) ==
  IF ~AuthorTruthy(author) THEN NullStr
  ELSE IF author.t = "string" THEN Str(author.s)
  ELSE IF author.t = "object" /\ NameTruthy(author.name)
         /\ author.name.nt = "array" THEN Str(Join(author.name.na, ", "))
  ELSE IF author.t = "object" /\ NameTruthy(author.name)
         /\ author.name.nt = "string" THEN Str(author.name.ns)
  ELSE NullStr

\* getAuthorString(data.author) ?? "Demo user"
AuthorOrDefault(author) ==
  LET r == getAuthorString(author) IN IF r.isNull THEN "Demo user" ELSE r.str

\* ------------------------------------------------- candidates (inputs)
\* What feed f delivers for guid g: every content field depends on the feed,
\* so two feeds observing one guid deliver different content.
PubDateOf(g, f) == ((2 * g + f) % MaxDate) + 1
AuthorOf(g, f) == AuthorShapes[((g + f - 2) % Len(AuthorShapes)) + 1]
CategoriesOf(g, f) ==
  IF (g + f) % 2 = 0 THEN [defined |-> FALSE, list |-> <<>>]
  ELSE [defined |-> TRUE, list |-> <<"news", "feed">>]

\* ArticleCreateData
Candidate(g, f) ==
  [ feedId |-> f, guid |-> g,
    title |-> <<"title", g, f>>, link |-> <<"link", g, f>>,
    content |-> <<"content", g, f>>, summary |-> <<"summary", g, f>>,
    pubDate |-> PubDateOf(g, f), author |-> AuthorOf(g, f),
    categories |-> CategoriesOf(g, f), imageUrl |-> <<"image", g, f>> ]

Candidates == { Candidate(g, f) : g \in Guids, f \in Feeds }

RECURSIVE SeqsUpTo(_, _)
SeqsUpTo(S, n) ==
  IF n = 0 THEN { <<>> }
  ELSE LET shorter == SeqsUpTo(S, n - 1)
       IN shorter \cup { Append(s, x) : s \in { t \in shorter : Len(t) = n - 1 }, x \in S }

Batches == SeqsUpTo(Candidates, MaxBatch)


\* ------------------------------------------------- the rssArticle collection
VARIABLES
  store,      \* the rssArticle collection, in insertion order
  pc,         \* per caller: the store operation it is about to await
  data,       \* per caller: the argument of its current createRssArticle call
  existing,   \* per caller: the local `existing` of createRssArticle
  ret,        \* per caller: how its latest createRssArticle call ended
  articles,   \* bulkCreateRssArticles: the batch
  idx,        \* bulkCreateRssArticles: number of candidates already processed
  results,    \* bulkCreateRssArticles: the BulkOperationResult
  attempts,   \* bulkCreateRssArticles: the candidates passed to createRssArticle
  observed,   \* history: (guid, feedId) pairs of calls that have returned
  reobs,      \* history: per caller, its pair was in observed at lookup time
  lastQuery   \* the latest getArticlesByFeedsAndDateRange call and its result

\* getAuthorString called on its own (src/actions/rss-article.ts, lines 25-46).
VARIABLES
  authorIn,     \* the raw author value handed to getAuthorString
  authorOut,    \* the call's result, once it has returned
  authorStored  \* the author field createRssArticle stores for it (line 91)

authorVars == << authorIn, authorOut, authorStored >>

\* NewsletterGenerationPage (src/app/dashboard/layout.tsx, lines 93-255), one
\* mounted instance.
VARIABLES
  search,           \* the URL search parameters (useSearchParams)
  committed,        \* the component has rendered since search last changed
  hasStartedRef,    \* hasStartedRef.current
  articlesCount,    \* React state articlesCount
  prep,             \* startGeneration: where the async function is suspended
  object,           \* useObject: the latest partial object, <<>> when undefined
  isLoading,        \* useObject: isLoading
  error,            \* useObject: an error is set
  lastDeps,         \* dependencies of the completion effect at its last run
  prepareCalls,     \* history: bodies POSTed to /api/newsletter/prepare
  submitCalls,      \* history: arguments of submit(...)
  errorToasts,      \* history: kinds of toast.error shown
  completionToasts, \* history: number of "Newsletter generated ..." toasts
  pendingSaves,     \* bag of saveGeneratedNewsletter calls handleSave is awaiting
  saveCalls,        \* history: bag of settled saveGeneratedNewsletter calls
  saved             \* bag of newsletter records persisted by saveGeneratedNewsletter

uiVars == << search, committed, hasStartedRef, articlesCount, prep, object, isLoading,
             error, lastDeps, prepareCalls, submitCalls, errorToasts, completionToasts,
             pendingSaves, saveCalls, saved >>

\* createRssArticle calls running next to getArticlesByFeedsAndDateRange.
VARIABLES
  inflight          \* bag of calls in progress: the argument and the store
                    \* operation the call is about to await

ingestVars == << inflight >>

\* Everything outside the rssArticle actions.
auxVars == << authorVars, uiVars, ingestVars >>

rssVars == << store, pc, data, existing, ret, articles, idx, results, attempts,
              observed, reobs, lastQuery >>

vars == << store, pc, data, existing, ret, articles, idx, results, attempts,
           observed, reobs, lastQuery, auxVars >>

NoError == [prisma |-> FALSE, code |-> ""]
P2002 == [prisma |-> TRUE, code |-> "P2002"]
P2025 == [prisma |-> TRUE, code |-> "P2025"]
P1001 == [prisma |-> TRUE, code |-> "P1001"]
PlainError == [prisma |-> FALSE, code |-> "Error"]
OtherErrors == { P1001, PlainError }

\* Outcome of an awaited promise: resolved with a row (or null) or rejected.
Resolved(rows) == [status |-> "ok", article |-> rows, error |-> NoError]
Rejected(err) == [status |-> "throw", article |-> <<>>, error |-> err]
NoRet == [status |-> "none", article |-> <<>>, error |-> NoError]

RowsWithGuid(st, g) == SelectSeq(st, LAMBDA a : a.guid = g)

\* prisma.rssArticle.findUnique({ where: { guid } }): the row or null.
FindUnique(st, g) ==
  LET rows == RowsWithGuid(st, g)
  IN IF Len(rows) = 0 THEN <<>> ELSE << rows[1] >>

\* select: { id: true, sourceFeedIds: true }
Select(rows) == [ k \in 1..Len(rows) |-> [id |-> rows[k].id, sourceFeedIds |-> rows[k].sourceFeedIds] ]

\* Position of the row findUnique / update address by guid (0 when absent).
RowIndex(st, g) ==
  IF \E k \in 1..Len(st) : st[k].guid = g
  THEN CHOOSE k \in 1..Len(st) : st[k].guid = g /\ \A j \in 1..(k - 1) : st[j].guid # g
  ELSE 0

\* The unique index on rssArticle.guid: would inserting guid g violate it.
UniqueGuidViolated(st, g) == \E k \in 1..Len(st) : st[k].guid = g

\* Variant: the update replaces the array (set: [feedId]) instead of pushing.
PrismaUpdateSet(st, g, f) ==
  LET k == RowIndex(st, g)
  IN IF k = 0 THEN [st |-> st, out |-> Rejected(P2025)]
     ELSE LET row == [st[k] EXCEPT !.sourceFeedIds = << f >>]
          IN [st |-> [st EXCEPT ![k] = row], out |-> Resolved(<< row >>)]

\* prisma.rssArticle.update({ where: { guid }, data: { sourceFeedIds: { push } } })
\* One atomic append to the array of the addressed row.
PrismaUpdatePush(st, g, f) ==
  LET k == RowIndex(st, g)
  IN IF k = 0 THEN [st |-> st, out |-> Rejected(P2025)]
     ELSE LET row == [st[k] EXCEPT !.sourceFeedIds = Append(@, f)]
          IN [st |-> [st EXCEPT ![k] = row], out |-> Resolved(<< row >>)]

\* The row createRssArticle builds for a first observation.
NewArticle(st, d) ==
  [ id |-> Len(st) + 1,
    feedId |-> d.feedId, guid |-> d.guid, sourceFeedIds |-> << d.feedId >>,
    title |-> d.title, link |-> d.link, content |-> d.content,
    summary |-> d.summary, pubDate |-> d.pubDate,
    author |-> AuthorOrDefault(d.author),
    categories |-> IF d.categories.defined THEN d.categories.list ELSE <<>>,
    imageUrl |-> d.imageUrl ]

\* Variant: the insert is not checked against the unique index on guid.
PrismaCreateNoIndex(st, d) ==
  LET row == NewArticle(st, d)
  IN [st |-> Append(st, row), out |-> Resolved(<< row >>)]

\* prisma.rssArticle.create({ data }): rejected with P2002 when the guid is taken.
PrismaCreate(st, d) ==
  IF UniqueGuidViolated(st, d.guid)
  THEN [st |-> st, out |-> Rejected(P2002)]
  ELSE LET row == NewArticle(st, d)
       IN [st |-> Append(st, row), out |-> Resolved(<< row >>)]

\* wrapDatabaseOperation: the operation's value, or its error rethrown with
\* the store's error code intact.
wrapDatabaseOperation(out) ==
  IF out.status = "ok" THEN Resolved(out.article) ELSE Rejected(out.error)

isPrismaError(e) == e.prisma

\* Variant: the lookup result is ignored and every call creates.
NextOpAlwaysCreate(ex, f) == "create"

\* Variant: the includes() test is missing, every re-observation pushes.
NextOpNoIncludes(ex, f) == IF Len(ex) = 0 THEN "create" ELSE "update"

\* if (existing) { if (!existing.sourceFeedIds.includes(feedId)) update else findUnique } else create
NextOp(ex, f) ==
  IF Len(ex) = 0 THEN "create"
  ELSE IF \E k \in 1..Len(ex[1].sourceFeedIds) : ex[1].sourceFeedIds[k] = f
       THEN "refetch"
       ELSE "update"

\* Variant: the catch block compares against the wrong error code.
TallyWrongCode(res, out) ==
  IF out.status = "ok" THEN [res EXCEPT !.created = @ + 1]
  ELSE IF isPrismaError(out.error) /\ out.error.code = "P2003"
       THEN [res EXCEPT !.skipped = @ + 1]
       ELSE [res EXCEPT !.errors = @ + 1]

\* Variant: the catch block counts only duplicate-key conflicts.
TallyDropErrors(res, out) ==
  IF out.status = "ok" THEN [res EXCEPT !.created = @ + 1]
  ELSE IF isPrismaError(out.error) /\ out.error.code = "P2002"
       THEN [res EXCEPT !.skipped = @ + 1]
       ELSE res

\* The catch block of bulkCreateRssArticles and the created++ before it.
Tally(res, out) ==
  IF out.status = "ok" THEN [res EXCEPT !.created = @ + 1]
  ELSE IF isPrismaError(out.error) /\ out.error.code = "P2002"
       THEN [res EXCEPT !.skipped = @ + 1]
       ELSE [res EXCEPT !.errors = @ + 1]

\* ------------------------------------------------- windowed retrieval
\* where: { OR: [{ feedId: { in: feedIds } }, { sourceFeedIds: { hasSome: feedIds } }],
\*          pubDate: { gte: startDate, lte: endDate } }
Where(a, feedIds, startDate, endDate) ==
  /\ \/ a.feedId \in feedIds
     \/ \E k \in 1..Len(a.sourceFeedIds) : a.sourceFeedIds[k] \in feedIds
  /\ a.pubDate >= startDate
  /\ a.pubDate <= endDate

\* ARTICLE_ORDER_BY_DATE_DESC: pubDate descending; rows with equal pubDate
\* keep the order of the collection.
RECURSIVE InsertByDateDesc(_, _)
InsertByDateDesc(sorted, a) ==
  IF Len(sorted) = 0 THEN << a >>
  ELSE IF Head(sorted).pubDate >= a.pubDate
       THEN << Head(sorted) >> \o InsertByDateDesc(Tail(sorted), a)
       ELSE << a >> \o sorted

RECURSIVE OrderByDateDesc(_)
OrderByDateDesc(rows) ==
  IF Len(rows) = 0 THEN <<>>
  ELSE InsertByDateDesc(OrderByDateDesc(SubSeq(rows, 1, Len(rows) - 1)), rows[Len(rows)])

\* take: limit
Take(rows, limit) == SubSeq(rows, 1, IF limit < Len(rows) THEN limit ELSE Len(rows))

\* ({ ...article, sourceCount: article.sourceFeedIds.length })
WithSourceCount(a) ==
  [ id |-> a.id, feedId |-> a.feedId, guid |-> a.guid,
    sourceFeedIds |-> a.sourceFeedIds, title |-> a.title, link |-> a.link,
    content |-> a.content, summary |-> a.summary, pubDate |-> a.pubDate,
    author |-> a.author, categories |-> a.categories, imageUrl |-> a.imageUrl,
    sourceCount |-> Len(a.sourceFeedIds) ]

\* Variant: the limit is applied before the rows are ordered.
FindManyTakeBeforeOrder(st, feedIds, startDate, endDate, limit) ==
  OrderByDateDesc(Take(SelectSeq(st, LAMBDA a : Where(a, feedIds, startDate, endDate)), limit))

\* prisma.rssArticle.findMany({ where, orderBy, take })
FindMany(st, feedIds, startDate, endDate, limit) ==
  Take(OrderByDateDesc(SelectSeq(st, LAMBDA a : Where(a, feedIds, startDate, endDate))), limit)

getArticlesByFeedsAndDateRange(st, feedIds, startDate, endDate, limit) ==
  LET found == FindMany(st, feedIds, startDate, endDate, limit)
  IN [ k \in 1..Len(found) |-> WithSourceCount(found[k]) ]

NoQuery == [called |-> FALSE, feedIds |-> {}, startDate |-> 0, endDate |-> 0,
            limit |-> 0, result |-> <<>>]

TypeOK ==
  /\ pc \in [Procs -> {"idle", "find", "update", "refetch", "create", "returned", "done"}]
  /\ idx \in 0..Len(articles)
  /\ articles \in Batches

RssIdle ==
  /\ store = <<>>
  /\ pc = [p \in Procs |-> "idle"]
  /\ data = [p \in Procs |-> <<>>]
  /\ existing = [p \in Procs |-> <<>>]
  /\ ret = [p \in Procs |-> NoRet]
  /\ articles = <<>>
  /\ idx = 0
  /\ results = [created |-> 0, skipped |-> 0, errors |-> 0]
  /\ attempts = <<>>
  /\ observed = {}
  /\ reobs = [p \in Procs |-> FALSE]
  /\ lastQuery = NoQuery

\* No getAuthorString call outside createRssArticle.
NotCalled == [called |-> FALSE, result |-> NullStr]
AuthorIdle ==
  /\ authorIn = JsNull
  /\ authorOut = NotCalled
  /\ authorStored = <<>>

\* A raw search parameter: <<>> is null (absent), << str >> a string.
NoParam == <<>>
NoSearch == [feedIds |-> NoParam, startDate |-> NoParam, endDate |-> NoParam,
             userInput |-> NoParam]
NotStarted == [pc |-> "none", params |-> <<>>]

\* No generation page mounted.
UiIdle ==
  /\ search = NoSearch
  /\ committed = FALSE
  /\ hasStartedRef = FALSE
  /\ articlesCount = 0
  /\ prep = NotStarted
  /\ object = <<>>
  /\ isLoading = FALSE
  /\ error = FALSE
  /\ lastDeps = <<>>
  /\ prepareCalls = <<>>
  /\ submitCalls = <<>>
  /\ errorToasts = {}
  /\ completionToasts = 0
  /\ pendingSaves = EmptyBag
  /\ saveCalls = EmptyBag
  /\ saved = EmptyBag

\* No createRssArticle call in progress next to the queries.
IngestIdle == inflight = EmptyBag

Init ==
  /\ RssIdle
  /\ AuthorIdle
  /\ UiIdle
  /\ IngestIdle

\* A createRssArticle call of caller p ends with outcome out (already passed
\* through wrapDatabaseOperation): control is back in the caller.
Finish(p, out) ==
  /\ ret' = [ret EXCEPT ![p] = out]
  /\ observed' = IF out.status = "ok"
                 THEN observed \cup { << data[p][1].guid, data[p][1].feedId >> }
                 ELSE observed
  /\ pc' = [pc EXCEPT ![p] = IF p = "bulk" THEN "returned" ELSE "done"]
  /\ UNCHANGED << data, articles, idx, results, attempts, lastQuery >>
  /\ UNCHANGED auxVars

\* The loop body of bulkCreateRssArticles after the await: created++ or the
\* catch block, then createRssArticle is called on the next candidate, or the
\* loop ends and results is returned.
BulkTally ==
  /\ pc["bulk"] = "returned"
  /\ results' = Tally(results, ret["bulk"])
  /\ idx' = idx + 1
  /\ IF idx + 1 < Len(articles)
     THEN /\ pc' = [pc EXCEPT !["bulk"] = "find"]
          /\ data' = [data EXCEPT !["bulk"] = << articles[idx + 2] >>]
          /\ attempts' = Append(attempts, articles[idx + 2])
          /\ ret' = [ret EXCEPT !["bulk"] = NoRet]
          /\ existing' = [existing EXCEPT !["bulk"] = <<>>]
          /\ reobs' = [reobs EXCEPT !["bulk"] = FALSE]
     ELSE /\ pc' = [pc EXCEPT !["bulk"] = "done"]
          /\ UNCHANGED << data, attempts, ret, existing, reobs >>
  /\ UNCHANGED << store, articles, observed, lastQuery >>
  /\ UNCHANGED auxVars

\* bulkCreateRssArticles(batch) is called: results start at zero and the loop
\* calls createRssArticle on the first candidate.
BulkStart(batch) ==
  /\ pc["bulk"] = "idle"
  /\ articles' = batch
  /\ results' = [created |-> 0, skipped |-> 0, errors |-> 0]
  /\ idx' = 0
  /\ IF Len(batch) = 0
     THEN /\ pc' = [pc EXCEPT !["bulk"] = "done"]
          /\ UNCHANGED << data, attempts >>
     ELSE /\ pc' = [pc EXCEPT !["bulk"] = "find"]
          /\ data' = [data EXCEPT !["bulk"] = << batch[1] >>]
          /\ attempts' = << batch[1] >>
  /\ UNCHANGED << store, existing, ret, observed, reobs, lastQuery >>
  /\ UNCHANGED auxVars

\* createRssArticle(d) is called directly by caller p.
DirectStart(p, d) ==
  /\ p \in DirectCallers
  /\ pc[p] = "idle"
  /\ pc' = [pc EXCEPT ![p] = "find"]
  /\ data' = [data EXCEPT ![p] = << d >>]
  /\ UNCHANGED << store, existing, ret, articles, idx, results, attempts, observed, reobs, lastQuery >>
  /\ UNCHANGED auxVars

\* const existing = await prisma.rssArticle.findUnique(...) resolves.
Find(p) ==
  /\ pc[p] = "find"
  /\ LET ex == Select(FindUnique(store, data[p][1].guid))
     IN /\ existing' = [existing EXCEPT ![p] = ex]
        /\ pc' = [pc EXCEPT ![p] = NextOp(ex, data[p][1].feedId)]
  /\ reobs' = [reobs EXCEPT ![p] = << data[p][1].guid, data[p][1].feedId >> \in observed]
  /\ UNCHANGED << store, data, ret, articles, idx, results, attempts, observed, lastQuery >>
  /\ UNCHANGED auxVars

\* Variant: the update writes back the array read by the lookup plus the new
\* feed id (read-modify-write) instead of pushing onto the stored array.
UpdateReadModifyWrite(p) ==
  /\ pc[p] = "update"
  /\ LET k == RowIndex(store, data[p][1].guid)
         row == [store[k] EXCEPT !.sourceFeedIds =
                   Append(existing[p][1].sourceFeedIds, data[p][1].feedId)]
     IN /\ k # 0
        /\ store' = [store EXCEPT ![k] = row]
        /\ Finish(p, wrapDatabaseOperation(Resolved(<< row >>)))
  /\ UNCHANGED << existing, reobs >>

\* Variant: the update also overwrites the content fields from the candidate.
UpdateOverwrite(p) ==
  /\ pc[p] = "update"
  /\ LET k == RowIndex(store, data[p][1].guid)
         row == [store[k] EXCEPT !.sourceFeedIds = Append(@, data[p][1].feedId),
                                 !.title = data[p][1].title,
                                 !.pubDate = data[p][1].pubDate]
     IN /\ k # 0
        /\ store' = [store EXCEPT ![k] = row]
        /\ Finish(p, wrapDatabaseOperation(Resolved(<< row >>)))
  /\ UNCHANGED << existing, reobs >>

\* return await prisma.rssArticle.update(... push ...) resolves.
Update(p) ==
  /\ pc[p] = "update"
  /\ LET r == PrismaUpdatePush(store, data[p][1].guid, data[p][1].feedId)
     IN /\ store' = r.st
        /\ Finish(p, wrapDatabaseOperation(r.out))
  /\ UNCHANGED << existing, reobs >>

\* return await prisma.rssArticle.findUnique(...) (feedId already present).
Refetch(p) ==
  /\ pc[p] = "refetch"
  /\ Finish(p, wrapDatabaseOperation(Resolved(FindUnique(store, data[p][1].guid))))
  /\ UNCHANGED << store, existing, reobs >>

\* return await prisma.rssArticle.create(...) resolves or is rejected.
Create(p) ==
  /\ pc[p] = "create"
  /\ LET r == PrismaCreate(store, data[p][1])
     IN /\ store' = r.st
        /\ Finish(p, wrapDatabaseOperation(r.out))
  /\ UNCHANGED << existing, reobs >>

\* The awaited store operation is rejected for a reason other than a
\* duplicate key (connection lost, timeout, ...); the store is not changed.
DbFail(p, err) ==
  /\ pc[p] \in {"find", "update", "refetch", "create"}
  /\ err \in OtherErrors
  /\ Finish(p, wrapDatabaseOperation(Rejected(err)))
  /\ UNCHANGED << store, existing, reobs >>

Next ==
  \/ pc["bulk"] = "idle" /\ \E batch \in Batches : BulkStart(batch)
  \/ \E p \in DirectCallers : pc[p] = "idle" /\ \E d \in Candidates : DirectStart(p, d)
  \/ BulkTally
  \/ \E p \in Procs : Find(p)
  \/ \E p \in Procs : Update(p)
  \/ \E p \in Procs : Refetch(p)
  \/ \E p \in Procs : Create(p)
  \/ \E p \in Procs, err \in OtherErrors : DbFail(p, err)

Spec == Init /\ [][Next]_vars


\* ------------------------------------------------- retrieval over ingested stores
RECURSIVE TotalSources(_)
TotalSources(st) ==
  IF Len(st) = 0 THEN 0 ELSE Len(Head(st).sourceFeedIds) + TotalSources(Tail(st))

StoredCandidates == { Candidate(g, f) : g \in StoredGuids, f \in QueryFeeds }

\* A createRssArticle(d) call suspended before the store operation op.
Call(d, op) == [d |-> d, pc |-> op]
Suspended(op) == { c \in BagToSet(inflight) : c.pc = op }
Return(c) == inflight (-) SetToBag({c})

\* createRssArticle(d) is called and its findUnique (line 57) is served; the
\* call goes on to await update, refetch or create.
IngestFind(d) ==
  /\ TotalSources(store) + BagCardinality(inflight) < MaxCalls
  /\ inflight' = inflight (+)
       SetToBag({Call(d, NextOp(Select(FindUnique(store, d.guid)), d.feedId))})
  /\ UNCHANGED << rssVars, authorVars, uiVars >>

\* The update of call c (lines 65-72) is served and call c returns its row.
IngestUpdate(c) ==
  /\ c \in Suspended("update")
  /\ store' = PrismaUpdatePush(store, c.d.guid, c.d.feedId).st
  /\ inflight' = Return(c)
  /\ UNCHANGED << pc, data, existing, ret, articles, idx, results, attempts,
                  observed, reobs, lastQuery >>
  /\ UNCHANGED << authorVars, uiVars >>

\* The findUnique of lines 75-77 is served and call c returns.
IngestRefetch(c) ==
  /\ c \in Suspended("refetch")
  /\ inflight' = Return(c)
  /\ UNCHANGED << rssVars, authorVars, uiVars >>

\* The create of call c (lines 81-96) is served: the row is inserted, or the
\* unique index rejects it; call c returns or throws.
IngestCreate(c) ==
  /\ c \in Suspended("create")
  /\ store' = PrismaCreate(store, c.d).st
  /\ inflight' = Return(c)
  /\ UNCHANGED << pc, data, existing, ret, articles, idx, results, attempts,
                  observed, reobs, lastQuery >>
  /\ UNCHANGED << authorVars, uiVars >>

\* getArticlesByFeedsAndDateRange is called and its findMany (line 140) is
\* served.  The response is held in lastQuery until Respond hands it to the
\* caller; the store goes on serving createRssArticle calls meanwhile.
Query(feedIds, startDate, endDate, limit) ==
  /\ ~lastQuery.called
  /\ lastQuery' = [ called |-> TRUE, feedIds |-> feedIds, startDate |-> startDate,
                    endDate |-> endDate, limit |-> limit,
                    result |-> getArticlesByFeedsAndDateRange(store, feedIds, startDate, endDate, limit) ]
  /\ UNCHANGED << store, pc, data, existing, ret, articles, idx, results, attempts,
                  observed, reobs >>
  /\ UNCHANGED auxVars

\* return articles.map(...): the response leaves the server action.
Respond ==
  /\ lastQuery.called
  /\ lastQuery' = NoQuery
  /\ UNCHANGED << store, pc, data, existing, ret, articles, idx, results, attempts,
                  observed, reobs >>
  /\ UNCHANGED auxVars

NextQuery ==
  \/ \E d \in StoredCandidates : IngestFind(d)
  \/ \E c \in Suspended("update") : IngestUpdate(c)
  \/ \E c \in Suspended("refetch") : IngestRefetch(c)
  \/ \E c \in Suspended("create") : IngestCreate(c)
  \/ ~lastQuery.called /\
       \E feedIds \in FeedSets, w \in Windows, limit \in Limits :
         Query(feedIds, w[1], w[2], limit)
  \/ Respond

SpecQuery == Init /\ [][NextQuery]_vars

\* ------------------------------------------------- getAuthorString on its own
\* Raw author values: strings and name arrays over NameStrings, arrays of up
\* to MaxNames elements.
MaxNames == 3
NameStrings == {"", "Ann", "Bob"}
JsBoolean == JsPrimitive("boolean", "true")
JsObjName(type, lit) == [t |-> "object", s |-> "", name |-> [nt |-> type, ns |-> lit, na |-> <<>>]]
JsObjNameNumber == JsObjName("number", "7")
\* 0, NaN, false, as the author and as the name; a null name.
FalsyPrimitives == { <<"number", "0">>, <<"number", "NaN">>, <<"boolean", "false">> }

AuthorInputs ==
  {JsNull, JsUndefined, JsNumber, JsBoolean, JsObjNoName, JsObjNameNumber,
   JsObjName("boolean", "true"), JsObjName("null", "null")}
    \cup { JsPrimitive(v[1], v[2]) : v \in FalsyPrimitives }
    \cup { JsObjName(v[1], v[2]) : v \in FalsyPrimitives }
    \cup { JsString(str) : str \in NameStrings }
    \cup { JsObjNameString(str) : str \in NameStrings }
    \cup { JsObjNameArray(arr) : arr \in SeqsUpTo(NameStrings, MaxNames) }

InitAuthor ==
  /\ RssIdle
  /\ UiIdle
  /\ IngestIdle
  /\ authorIn \in AuthorInputs
  /\ authorOut = NotCalled
  /\ authorStored = <<>>

\* getAuthorString(author) returns.
GetAuthor ==
  /\ ~authorOut.called
  /\ authorOut' = [called |-> TRUE, result |-> getAuthorString(authorIn)]
  /\ UNCHANGED << authorIn, authorStored >>
  /\ UNCHANGED << rssVars, uiVars, ingestVars >>

\* author: getAuthorString(data.author) ?? "Demo user"
StoreAuthor ==
  /\ authorOut.called
  /\ authorStored = <<>>
  /\ authorStored' = << AuthorOrDefault(authorIn) >>
  /\ UNCHANGED << authorIn, authorOut >>
  /\ UNCHANGED << rssVars, uiVars, ingestVars >>

NextAuthor ==
  \/ GetAuthor
  \/ StoreAuthor

SpecAuthor == InitAuthor /\ [][NextAuthor]_vars

\* ------------------------------------------------- NewsletterGenerationPage
\* Largest array length the generation stream delivers; largest articlesFound
\* the prepare endpoint reports.
MaxItems == 5
MaxFound == 1
\* Presses of the save button in one session.
MaxSaves == 2

\* NewsletterSchema: z.array(z.string()).length(5)
RequiredLength == 5

Raw(str) == << str >>
SearchOf(f, s, e, u) == [feedIds |-> f, startDate |-> s, endDate |-> e, userInput |-> u]

\* The search parameters the page is opened with or navigated to.
Searches ==
  { SearchOf(Raw("[\"f1\"]"), Raw("2024-01-01"), Raw("2024-01-31"), NoParam),
    SearchOf(Raw("[\"f1\",\"f2\"]"), Raw("2024-01-01"), Raw("2024-01-31"), Raw("focus on AI")),
    SearchOf(NoParam, Raw("2024-01-01"), Raw("2024-01-31"), NoParam),
    SearchOf(Raw(""), Raw("2024-01-01"), Raw("2024-01-31"), NoParam),
    SearchOf(Raw("[\"f1\""), Raw("2024-01-01"), Raw("2024-01-31"), NoParam),
    SearchOf(Raw("[]"), Raw("2024-01-01"), Raw("2024-01-31"), Raw("")),
    SearchOf(Raw("5"), Raw("2024-01-01"), Raw("2024-01-31"), NoParam),
    SearchOf(Raw("[\"f1\"]"), NoParam, Raw("2024-01-31"), NoParam),
    SearchOf(Raw("[\"f1\"]"), Raw("2024-01-01"), Raw(""), NoParam) }

\* JavaScript truthiness of a string | null.
Truthy(raw) == raw # <<>> /\ raw[1] # ""

\* JSON.parse on the feedIds strings above: the parsed value, or a SyntaxError.
JsonParse(str) ==
  CASE str = "[\"f1\"]" -> [threw |-> FALSE, kind |-> "array", items |-> << "f1" >>]
    [] str = "[\"f1\",\"f2\"]" -> [threw |-> FALSE, kind |-> "array", items |-> << "f1", "f2" >>]
    [] str = "[]" -> [threw |-> FALSE, kind |-> "array", items |-> <<>>]
    [] str = "5" -> [threw |-> FALSE, kind |-> "number", items |-> <<>>]
    [] OTHER -> [threw |-> TRUE, kind |-> "SyntaxError", items |-> <<>>]

\* let params = null; if (feedIds && startDate && endDate) { try {...} catch {...} }
\* <<>> is null.
ParseParams(q) ==
  IF Truthy(q.feedIds) /\ Truthy(q.startDate) /\ Truthy(q.endDate)
  THEN LET parsed == JsonParse(q.feedIds[1])
       IN IF parsed.threw THEN <<>>
          ELSE << [ feedIds |-> [kind |-> parsed.kind, items |-> parsed.items],
                    startDate |-> q.startDate[1], endDate |-> q.endDate[1],
                    userInput |-> IF Truthy(q.userInput) THEN q.userInput ELSE <<>> ] >>
  ELSE <<>>

\* A page instance freshly mounted on search parameters q, before its first render.
UiMounted(q) ==
  /\ search = q
  /\ committed = FALSE
  /\ hasStartedRef = FALSE
  /\ articlesCount = 0
  /\ prep = NotStarted
  /\ object = <<>>
  /\ isLoading = FALSE
  /\ error = FALSE
  /\ lastDeps = <<>>
  /\ prepareCalls = <<>>
  /\ submitCalls = <<>>
  /\ errorToasts = {}
  /\ completionToasts = 0
  /\ pendingSaves = EmptyBag
  /\ saveCalls = EmptyBag
  /\ saved = EmptyBag

InitUI ==
  /\ RssIdle
  /\ AuthorIdle
  /\ IngestIdle
  /\ \E q \in Searches : UiMounted(q)

\* ---- the partial newsletter object (a field is <<>> while absent)
\* An array of n strings; the strings themselves play no role.
Items(n) == [k \in 1..n |-> k]
\* Array lengths the stream delivers: one short of the required length (an array
\* still being filled, or a short final array) up to MaxItems.
ArrayLens == (RequiredLength - 1)..MaxItems
BodyTexts == << "", "Dear", "Dear readers" >>
FieldOrder == << "suggestedTitles", "suggestedSubjectLines", "body", "topAnnouncements",
                 "additionalInfo" >>
EmptyObject == [ suggestedTitles |-> <<>>, suggestedSubjectLines |-> <<>>, body |-> <<>>,
                 topAnnouncements |-> <<>>, additionalInfo |-> <<>> ]

BodyRank(text) == CHOOSE k \in 1..Len(BodyTexts) : BodyTexts[k] = text

\* The values field f can take, and the values it can grow to from v.
FieldValues(f) ==
  IF f = "body" THEN { BodyTexts[k] : k \in 1..Len(BodyTexts) }
  ELSE IF f = "additionalInfo" THEN { "PS" }
  ELSE { Items(n) : n \in ArrayLens }
GrownValues(f, v) ==
  IF f = "body" THEN { w \in FieldValues(f) : BodyRank(w) > BodyRank(v) }
  ELSE IF f = "additionalInfo" THEN {}
  ELSE { w \in FieldValues(f) : Len(w) > Len(v) }

\* The field the stream is currently filling: the last one present (0: none).
LastPresent(o) ==
  IF \A k \in 1..Len(FieldOrder) : o[FieldOrder[k]] = <<>> THEN 0
  ELSE CHOOSE k \in 1..Len(FieldOrder) :
         /\ o[FieldOrder[k]] # <<>>
         /\ \A j \in (k + 1)..Len(FieldOrder) : o[FieldOrder[j]] = <<>>

\* The partial objects the next chunk can turn o into: fields are filled in
\* schema order and only grow.
NextObjects(o) ==
  LET k == LastPresent(o)
  IN (IF k = 0 THEN {}
      ELSE { [o EXCEPT ![FieldOrder[k]] = << w >>] :
               w \in GrownValues(FieldOrder[k], o[FieldOrder[k]][1]) })
     \cup
     (IF k = Len(FieldOrder) THEN {}
      ELSE { [o EXCEPT ![FieldOrder[k + 1]] = << w >>] : w \in FieldValues(FieldOrder[k + 1]) })

\* The JSON document is closed: every required field has arrived.
IsFinal(o) ==
  /\ o.suggestedTitles # <<>> /\ o.suggestedSubjectLines # <<>>
  /\ o.body # <<>> /\ o.topAnnouncements # <<>>

\* newsletter?.body
BodyOf(obj) == IF obj = <<>> THEN <<>> ELSE obj[1].body
BodyTruthy(obj) == Truthy(BodyOf(obj))

\* NewsletterSchema without the .length(5) constraints.
NewsletterSchemaNoLength(o) ==
  /\ o.suggestedTitles # <<>>
  /\ o.suggestedSubjectLines # <<>>
  /\ o.body # <<>>
  /\ o.topAnnouncements # <<>>

\* NewsletterSchema.safeParse(o).success
NewsletterSchema(o) ==
  /\ o.suggestedTitles # <<>> /\ Len(o.suggestedTitles[1]) = RequiredLength
  /\ o.suggestedSubjectLines # <<>> /\ Len(o.suggestedSubjectLines[1]) = RequiredLength
  /\ o.body # <<>>
  /\ o.topAnnouncements # <<>> /\ Len(o.topAnnouncements[1]) = RequiredLength

\* saveGeneratedNewsletter: validates the newsletter, then hands the record to
\* the newsletter store.
saveGeneratedNewsletter(st, input) ==
  IF NewsletterSchema(input.newsletter)
  THEN [st |-> st (+) SetToBag({ input }), out |-> "ok"]
  ELSE [st |-> st, out |-> "ValidationError"]

\* new Date(str) on the date strings above: days since the epoch, or Invalid Date.
NewDate(str) ==
  CASE str = "2024-01-01" -> [valid |-> TRUE, day |-> 19723]
    [] str = "2024-01-31" -> [valid |-> TRUE, day |-> 19753]
    [] OTHER -> [valid |-> FALSE, day |-> 0]

\* NewsletterDisplay: the save button is disabled while isGenerating.
SaveButtonEnabled(isGenerating) == ~isGenerating

\* ---- the controller's state, in the terms of the generation state machine
PrepInFlight == prep.pc \in {"fetch", "jsonOk", "jsonErr"}
GenState ==
  IF error THEN "Failed"
  ELSE IF isLoading THEN "Streaming"
  ELSE IF Len(submitCalls) > 0 THEN "Complete"
  ELSE IF PrepInFlight THEN "Preparing"
  ELSE "Idle"

\* if (!params || hasStartedRef.current) return;  -- without the latch.
StartEffectFiresNoLatch(params) == params # <<>>

\* if (!params || hasStartedRef.current) return;
StartEffectFires(params) == params # <<>> /\ ~hasStartedRef

\* if (!isLoading && newsletter?.body && articlesCount > 0)
CompletionEffectFires == ~isLoading /\ BodyTruthy(object) /\ articlesCount > 0

\* [isLoading, newsletter?.body, articlesCount]
CompletionDeps == << isLoading, BodyOf(object), articlesCount >>

\* A render is due: the page has not rendered since its search parameters or
\* one of the effects' dependencies changed.  React renders and runs the
\* effects before the next event is handled.
RenderPending ==
  \/ ~committed
  \/ lastDeps # << CompletionDeps >>
  \/ error /\ "stream-error" \notin errorToasts

\* Search parameters a mounted page is navigated to.
NavTargets ==
  { SearchOf(Raw("[\"f1\",\"f2\"]"), Raw("2024-01-01"), Raw("2024-01-31"), Raw("focus on AI")),
    SearchOf(NoParam, Raw("2024-01-01"), Raw("2024-01-31"), NoParam) }

\* ---- actions
\* The URL's search parameters change while the page stays mounted.
Navigate(q) ==
  /\ ~RenderPending
  /\ q # search
  /\ search' = q
  /\ committed' = FALSE
  /\ UNCHANGED << hasStartedRef, articlesCount, prep, object, isLoading, error, lastDeps,
                  prepareCalls, submitCalls, errorToasts, completionToasts, pendingSaves, saveCalls, saved >>
  /\ UNCHANGED << rssVars, authorVars, ingestVars >>

\* The component renders and its effects run: the start effect (its
\* dependency params is a new object on every render), the completion effect
\* when one of its dependencies changed, the error effect.
Render ==
  LET params == ParseParams(search)
      start == StartEffectFires(params)
      rerun == lastDeps # << CompletionDeps >>
  IN /\ RenderPending
     /\ committed' = TRUE
     /\ hasStartedRef' = (hasStartedRef \/ start)
     /\ prep' = IF start THEN [pc |-> "fetch", params |-> params] ELSE prep
     /\ prepareCalls' = IF start THEN Append(prepareCalls, params[1]) ELSE prepareCalls
     /\ lastDeps' = << CompletionDeps >>
     /\ completionToasts' = IF rerun /\ CompletionEffectFires
                            THEN completionToasts + 1 ELSE completionToasts
     /\ errorToasts' = IF error THEN errorToasts \cup {"stream-error"} ELSE errorToasts
     /\ UNCHANGED << search, articlesCount, object, isLoading, error, submitCalls,
                     pendingSaves, saveCalls, saved >>
     /\ UNCHANGED << rssVars, authorVars, ingestVars >>

\* submit(p) of useObject: the previous object and error are cleared and the
\* request to /api/newsletter/generate-stream starts.
submit(p) ==
  /\ object' = <<>>
  /\ isLoading' = TRUE
  /\ error' = FALSE
  /\ submitCalls' = Append(submitCalls, p)

FetchOutcomes == {"ok", "notOk", "networkError"}

\* The fetch of startGeneration that rethrows a network error instead of
\* submitting from the catch block.
FetchSettlesNoSubmitInCatch(outcome) ==
  /\ ~RenderPending
  /\ prep.pc = "fetch"
  /\ IF outcome = "networkError"
     THEN /\ errorToasts' = errorToasts \cup {"unexpected"}
          /\ prep' = [prep EXCEPT !.pc = "done"]
     ELSE /\ prep' = [prep EXCEPT !.pc = IF outcome = "ok" THEN "jsonOk" ELSE "jsonErr"]
          /\ UNCHANGED errorToasts
  /\ UNCHANGED << object, isLoading, error, submitCalls >>
  /\ UNCHANGED << search, committed, hasStartedRef, articlesCount, lastDeps, prepareCalls,
                  completionToasts, pendingSaves, saveCalls, saved >>
  /\ UNCHANGED << rssVars, authorVars, ingestVars >>

\* await fetch("/api/newsletter/prepare", ...) settles: with a response, or
\* with a rejection that the catch block turns into a toast and submit(params).
FetchSettles(outcome) ==
  /\ ~RenderPending
  /\ prep.pc = "fetch"
  /\ IF outcome = "networkError"
     THEN /\ errorToasts' = errorToasts \cup {"unexpected"}
          /\ submit(prep.params[1])
          /\ prep' = [prep EXCEPT !.pc = "done"]
     ELSE /\ prep' = [prep EXCEPT !.pc = IF outcome = "ok" THEN "jsonOk" ELSE "jsonErr"]
          /\ UNCHANGED << errorToasts, object, isLoading, error, submitCalls >>
  /\ UNCHANGED << search, committed, hasStartedRef, articlesCount, lastDeps, prepareCalls,
                  completionToasts, pendingSaves, saveCalls, saved >>
  /\ UNCHANGED << rssVars, authorVars, ingestVars >>

\* What await response.json() gives: a parsed body, or a rejection (the body
\* is not JSON, or not an object).
PrepareBodies ==
  { [parsed |-> FALSE, articlesFound |-> 0] }
    \cup { [parsed |-> TRUE, articlesFound |-> n] : n \in 0..MaxFound }

\* await response.json() settles; the rest of startGeneration runs: the error
\* toast (the toast.info calls leave no trace in the state), setArticlesCount,
\* and submit(params) from the try or the catch block.
JsonSettles(body) ==
  /\ ~RenderPending
  /\ prep.pc \in {"jsonOk", "jsonErr"}
  /\ errorToasts' = errorToasts \cup
       ( IF ~body.parsed THEN {"unexpected"}
         ELSE IF prep.pc = "jsonErr" THEN {"prepare-failed"}
         ELSE {} )
  /\ articlesCount' = IF body.parsed /\ prep.pc = "jsonOk" /\ body.articlesFound > 0
                      THEN body.articlesFound ELSE articlesCount
  /\ submit(prep.params[1])
  /\ prep' = [prep EXCEPT !.pc = "done"]
  /\ UNCHANGED << search, committed, hasStartedRef, lastDeps, prepareCalls,
                  completionToasts, pendingSaves, saveCalls, saved >>
  /\ UNCHANGED << rssVars, authorVars, ingestVars >>

\* useObject receives the next chunk of the stream.
StreamChunk(next) ==
  /\ ~RenderPending
  /\ isLoading
  /\ next \in NextObjects(IF object = <<>> THEN EmptyObject ELSE object[1])
  /\ object' = << next >>
  /\ UNCHANGED << search, committed, hasStartedRef, articlesCount, prep, isLoading, error,
                  lastDeps, prepareCalls, submitCalls, errorToasts, completionToasts,
                  pendingSaves, saveCalls, saved >>
  /\ UNCHANGED << rssVars, authorVars, ingestVars >>

\* The stream ends after a closed JSON document.
StreamEnd ==
  /\ ~RenderPending
  /\ isLoading
  /\ object # <<>> /\ IsFinal(object[1])
  /\ isLoading' = FALSE
  /\ UNCHANGED << search, committed, hasStartedRef, articlesCount, prep, object, error,
                  lastDeps, prepareCalls, submitCalls, errorToasts, completionToasts,
                  pendingSaves, saveCalls, saved >>
  /\ UNCHANGED << rssVars, authorVars, ingestVars >>

\* The request fails or the stream breaks; the partial object stays.
StreamError ==
  /\ ~RenderPending
  /\ isLoading
  /\ isLoading' = FALSE
  /\ error' = TRUE
  /\ UNCHANGED << search, committed, hasStartedRef, articlesCount, prep, object,
                  lastDeps, prepareCalls, submitCalls, errorToasts, completionToasts,
                  pendingSaves, saveCalls, saved >>
  /\ UNCHANGED << rssVars, authorVars, ingestVars >>

\* The user presses the save button of NewsletterDisplay, which is rendered
\* when params is not null and newsletter?.body is truthy; handleSave runs up
\* to its await: the server action is called with the rendered newsletter.
handleSave ==
  LET params == ParseParams(search)
  IN /\ ~RenderPending
     /\ params # <<>>
     /\ BodyTruthy(object)
     /\ SaveButtonEnabled(isLoading)
     /\ BagCardinality(pendingSaves) + BagCardinality(saveCalls) < MaxSaves
     /\ IF object = <<>> \/ params = <<>>
        THEN UNCHANGED pendingSaves
        ELSE LET input == [ newsletter |-> object[1], feedIds |-> params[1].feedIds,
                            startDate |-> NewDate(params[1].startDate),
                            endDate |-> NewDate(params[1].endDate),
                            userInput |-> params[1].userInput ]
             IN pendingSaves' = pendingSaves (+)
                  SetToBag({ [input |-> input, state |-> GenState, out |-> "pending"] })
     /\ UNCHANGED << search, committed, hasStartedRef, articlesCount, prep, object, isLoading,
                     error, lastDeps, prepareCalls, submitCalls, errorToasts,
                     completionToasts, saveCalls, saved >>
     /\ UNCHANGED << rssVars, authorVars, ingestVars >>

\* The server runs the saveGeneratedNewsletter call c; its outcome is on its
\* way back to the page.
SaveServed(c) ==
  /\ c \in BagToSet(pendingSaves) /\ c.out = "pending"
  /\ LET r == saveGeneratedNewsletter(saved, c.input)
     IN /\ saved' = r.st
        /\ pendingSaves' = (pendingSaves (-) SetToBag({c}))
                             (+) SetToBag({ [c EXCEPT !.out = r.out] })
  /\ UNCHANGED << search, committed, hasStartedRef, articlesCount, prep, object, isLoading,
                  error, lastDeps, prepareCalls, submitCalls, errorToasts,
                  completionToasts, saveCalls >>
  /\ UNCHANGED << rssVars, authorVars, ingestVars >>

\* The awaited call c settles and handleSave resumes: toast.success, or the
\* catch block's toast.error("Failed to save newsletter").
SaveSettles(c) ==
  /\ ~RenderPending
  /\ c \in BagToSet(pendingSaves) /\ c.out # "pending"
  /\ pendingSaves' = pendingSaves (-) SetToBag({c})
  /\ saveCalls' = saveCalls (+) SetToBag({c})
  /\ errorToasts' = IF c.out = "ok" THEN errorToasts ELSE errorToasts \cup {"save-failed"}
  /\ UNCHANGED << search, committed, hasStartedRef, articlesCount, prep, object, isLoading,
                  error, lastDeps, prepareCalls, submitCalls, completionToasts, saved >>
  /\ UNCHANGED << rssVars, authorVars, ingestVars >>

NextUI ==
  \/ \E q \in NavTargets : Navigate(q)
  \/ Render
  \/ \E outcome \in FetchOutcomes : FetchSettles(outcome)
  \/ \E body \in PrepareBodies : JsonSettles(body)
  \/ isLoading /\ ~RenderPending /\ \E next \in NextObjects(IF object = <<>> THEN EmptyObject ELSE object[1]) :
       StreamChunk(next)
  \/ StreamEnd
  \/ StreamError
  \/ handleSave
  \/ \E c \in BagToSet(pendingSaves) : SaveServed(c)
  \/ \E c \in BagToSet(pendingSaves) : SaveSettles(c)

SpecUI == InitUI /\ [][NextUI]_vars

\* React renders after mount and after every state change.  The awaited
\* promises of startGeneration settle (a prepare request that terminates), and
\* the continuation runs once the event loop is free of pending renders,
\* however often the page is navigated and rendered in between.
FairSpecUI ==
  /\ SpecUI
  /\ WF_vars(Render)
  /\ SF_vars(\E outcome \in FetchOutcomes : FetchSettles(outcome))
  /\ SF_vars(\E body \in PrepareBodies : JsonSettles(body))

\* ------------------------------------------------- helpers for the properties
Elems(seq) == { seq[k] : k \in 1..Len(seq) }
NoDup(seq) == \A i, j \in 1..Len(seq) : i # j => seq[i] # seq[j]
Started(p) == Len(data[p]) = 1
GuidOf(p) == data[p][1].guid
FeedOf(p) == data[p][1].feedId
Conflict(p) == ret[p].status = "throw" /\ ret[p].error = P2002
\* The lookup of p's current call found the article without p's feed id.
TookUpdate(p) == Len(existing[p]) = 1 /\ FeedOf(p) \notin Elems(existing[p][1].sourceFeedIds)

\* C1: in every reachable state no two stored articles have the same guid,
\* also when two calls race to create the same previously-unseen guid.
C1_UniqueGuid ==
  \A i, j \in 1..Len(store) : i # j => store[i].guid # store[j].guid

\* Two callers both looked up the same guid, both found nothing, both went on
\* to create: one created the row, the other was rejected.
C1_Witness ==
  \E p, q \in Procs :
    /\ p # q /\ Started(p) /\ Started(q) /\ GuidOf(p) = GuidOf(q)
    /\ existing[p] = <<>> /\ existing[q] = <<>>
    /\ ret[p].status = "ok" /\ Conflict(q)
    /\ Len(RowsWithGuid(store, GuidOf(p))) = 1

\* C2: every stored article's sourceFeedIds is non-empty and contains no feed
\* id twice, under every interleaving of concurrent createRssArticle calls.
C2_SourcesDupFree ==
  \A k \in 1..Len(store) :
    Len(store[k].sourceFeedIds) > 0 /\ NoDup(store[k].sourceFeedIds)

\* C3: no lost update in the merge step: two calls for one existing guid with
\* different feed ids, both of which found their feed id missing and have
\* both returned, leave both feed ids in sourceFeedIds.
C3_NoLostUpdate ==
  \A p, q \in Procs :
    ( /\ p # q /\ Started(p) /\ Started(q) /\ GuidOf(p) = GuidOf(q)
      /\ FeedOf(p) # FeedOf(q)
      /\ TookUpdate(p) /\ TookUpdate(q)
      /\ ret[p].status = "ok" /\ ret[q].status = "ok" )
    => \E k \in 1..Len(store) :
         /\ store[k].guid = GuidOf(p)
         /\ { FeedOf(p), FeedOf(q) } \subseteq Elems(store[k].sourceFeedIds)

\* Both lookups ran before either append (each snapshot lacks both feed ids),
\* both calls have returned and the stored array holds both feed ids.
C3_Witness ==
  \E p, q \in Procs :
    /\ p # q /\ Started(p) /\ Started(q) /\ GuidOf(p) = GuidOf(q)
    /\ FeedOf(p) # FeedOf(q)
    /\ TookUpdate(p) /\ TookUpdate(q)
    /\ FeedOf(q) \notin Elems(existing[p][1].sourceFeedIds)
    /\ FeedOf(p) \notin Elems(existing[q][1].sourceFeedIds)
    /\ ret[p].status = "ok" /\ ret[q].status = "ok"
    /\ \E k \in 1..Len(store) :
         /\ store[k].guid = GuidOf(p)
         /\ { FeedOf(p), FeedOf(q) } \subseteq Elems(store[k].sourceFeedIds)

\* C4 (as stated): no createRssArticle call ever ends with a duplicate-key
\* conflict; every call that ends returns an article.
C4_NeverConflict ==
  \A p \in Procs : ~Conflict(p)

\* C4 (amended): a createRssArticle call ends with a duplicate-key conflict
\* only when its lookup found no article for the guid and the guid was created
\* by another call before its own create; a call whose lookup found the
\* article never ends with a conflict, and a call that returns returns a row.
C4_ConflictOnlyOnLostCreate ==
  \A p \in Procs :
    /\ Conflict(p) =>
         /\ existing[p] = <<>>
         /\ Len(RowsWithGuid(store, GuidOf(p))) = 1
    /\ ret[p].status = "ok" =>
         /\ Len(ret[p].article) = 1
         /\ ret[p].article[1].guid = GuidOf(p)

C4_Witness ==
  \E p \in Procs :
    /\ Conflict(p) /\ existing[p] = <<>>
    /\ Len(RowsWithGuid(store, GuidOf(p))) = 1


\* A step taken by caller p.
StepOf(p) == pc'[p] # pc[p]

\* C5: idempotent re-observation: a createRssArticle call for a (guid, feedId)
\* pair that an earlier call has already returned for leaves the store
\* unchanged at every one of its steps, and returns the stored article with
\* sourceFeedIds as it is in the store.
C5_IdempotentReobservation ==
  [][ \A p \in Procs :
        ( /\ StepOf(p) /\ Started(p)
          /\ \/ pc[p] = "find" /\ << GuidOf(p), FeedOf(p) >> \in observed
             \/ pc[p] \in {"update", "refetch", "create"} /\ reobs[p] )
        => /\ store' = store
           /\ pc[p] = "find" => pc'[p] \in {"refetch", "returned", "done"}
           /\ pc[p] # "find" => pc[p] = "refetch"
           /\ ret'[p].status = "ok" => ret'[p].article = FindUnique(store, GuidOf(p)) ]_vars

\* A second call for an already observed pair has returned the stored row.
C5_Witness ==
  \E p \in Procs :
    /\ Started(p) /\ reobs[p] /\ ret[p].status = "ok"
    /\ pc[p] \in {"returned", "done"}
    /\ FeedOf(p) \in Elems(ret[p].article[1].sourceFeedIds)

\* The bulk caller ingested a batch of two observations of one guid through
\* two different feeds, both calls returned, and no other caller was given
\* that guid.
SequentialPair ==
  /\ pc["bulk"] = "done"
  /\ Len(articles) = 2
  /\ results.created = 2
  /\ articles[1].guid = articles[2].guid
  /\ articles[1].feedId # articles[2].feedId
  /\ \A d \in DirectCallers : Started(d) => GuidOf(d) # articles[1].guid

\* C6: set-union growth with frozen content: ingesting (G, A) and then (G, B),
\* A # B, leaves exactly one article for G with sourceFeedIds = <<A, B>> and
\* every content field as delivered by the first observation.
C6_UnionGrowthFrozenContent ==
  SequentialPair =>
    LET rows == RowsWithGuid(store, articles[1].guid)
        first == articles[1]
    IN /\ Len(rows) = 1
       /\ rows[1].sourceFeedIds = << articles[1].feedId, articles[2].feedId >>
       /\ rows[1].feedId = first.feedId
       /\ rows[1].title = first.title
       /\ rows[1].link = first.link
       /\ rows[1].content = first.content
       /\ rows[1].summary = first.summary
       /\ rows[1].pubDate = first.pubDate
       /\ rows[1].author = AuthorOrDefault(first.author)
       /\ rows[1].categories = (IF first.categories.defined THEN first.categories.list ELSE <<>>)
       /\ rows[1].imageUrl = first.imageUrl

\* The two observations differ in content and the second one was merged.
C6_Witness ==
  /\ SequentialPair
  /\ articles[1].title # articles[2].title
  /\ articles[1].pubDate # articles[2].pubDate
  /\ articles[1].author # articles[2].author
  /\ RowsWithGuid(store, articles[1].guid)[1].sourceFeedIds
       = << articles[1].feedId, articles[2].feedId >>

\* C7: at every step every stored article stays stored, keeps its guid and
\* its primary feed id, and its sourceFeedIds keeps every element it had;
\* in every state sourceFeedIds contains the primary feed id.
C7_SourcesOnlyGrow ==
  /\ [](\A k \in 1..Len(store) : store[k].feedId \in Elems(store[k].sourceFeedIds))
  /\ [][ \A k \in 1..Len(store) :
           /\ k <= Len(store')
           /\ store'[k].id = store[k].id
           /\ store'[k].guid = store[k].guid
           /\ store'[k].feedId = store[k].feedId
           /\ Len(store'[k].sourceFeedIds) >= Len(store[k].sourceFeedIds)
           /\ \A i \in 1..Len(store[k].sourceFeedIds) :
                store'[k].sourceFeedIds[i] = store[k].sourceFeedIds[i] ]_vars

\* An article that has grown beyond its primary feed id.
C7_Witness ==
  \E k \in 1..Len(store) :
    /\ Len(store[k].sourceFeedIds) >= 2
    /\ store[k].sourceFeedIds[1] = store[k].feedId

\* The step the loop of bulkCreateRssArticles takes next when the awaited
\* store operation settles without an unrelated failure.
BulkStep ==
  \/ Find("bulk") \/ Update("bulk") \/ Refetch("bulk") \/ Create("bulk") \/ BulkTally

\* C8: batch accounting: the loop calls createRssArticle on the candidates in
\* batch order whatever the earlier outcomes were, counts every processed
\* candidate exactly once, can always take its next step until the batch is
\* exhausted (no outcome stops it), and ends with created + skipped +
\* errors = N.
C8_BatchAccounting ==
  /\ pc["bulk"] \notin {"idle", "done"} => ENABLED BulkStep
  /\ results.created + results.skipped + results.errors = idx
  /\ idx <= Len(articles)
  /\ pc["bulk"] \in {"find", "update", "refetch", "create", "returned"} =>
       /\ idx < Len(articles)
       /\ attempts = SubSeq(articles, 1, idx + 1)
       /\ data["bulk"] = << articles[idx + 1] >>
  /\ pc["bulk"] = "done" =>
       /\ idx = Len(articles)
       /\ attempts = articles
       /\ results.created + results.skipped + results.errors = Len(articles)

\* A full batch has been processed with one outcome of each kind.
C8_Witness ==
  /\ pc["bulk"] = "done"
  /\ Len(articles) = MaxBatch
  /\ results.errors >= 1
  /\ results.created + results.skipped >= 1
  /\ results.created + results.skipped + results.errors = MaxBatch

\* C9: when the loop of bulkCreateRssArticles handles the outcome of a call,
\* a duplicate-key conflict (a create that lost the race for a new guid)
\* adds one to skipped only, any other failure adds one to errors only, and a
\* returned call adds one to created only.
C9_ConflictIsSkipped ==
  [][ (pc["bulk"] = "returned" /\ StepOf("bulk")) =>
        /\ Conflict("bulk") =>
             results' = [results EXCEPT !.skipped = @ + 1]
        /\ (ret["bulk"].status = "throw" /\ ~Conflict("bulk")) =>
             results' = [results EXCEPT !.errors = @ + 1]
        /\ ret["bulk"].status = "ok" =>
             results' = [results EXCEPT !.created = @ + 1]
        /\ ( /\ existing["bulk"] = <<>>
             /\ Len(RowsWithGuid(store, GuidOf("bulk"))) = 1
             /\ ret["bulk"].error \notin OtherErrors
             /\ ret["bulk"].status = "throw" ) =>
             results'.skipped = results.skipped + 1 /\ results'.errors = results.errors ]_vars

\* One candidate lost a create race and was skipped, another failed otherwise.
C9_Witness ==
  /\ pc["bulk"] = "done"
  /\ results.skipped = 1 /\ results.errors = 1 /\ results.created = 0


\* Rows of the collection that satisfy the selection predicate of the query.
Matching(q) ==
  { k \in 1..Len(store) :
      /\ store[k].pubDate >= q.startDate /\ store[k].pubDate <= q.endDate
      /\ \/ store[k].feedId \in q.feedIds
         \/ Elems(store[k].sourceFeedIds) \cap q.feedIds # {} }
Returned(q) ==
  { k \in 1..Len(store) : \E i \in 1..Len(q.result) : q.result[i].id = store[k].id }
MinOf(a, b) == IF a < b THEN a ELSE b

\* C10: window correctness: whenever the store serves the findMany of
\* getArticlesByFeedsAndDateRange, the result holds only articles stored at
\* that moment inside the inclusive window with feed overlap, each at most
\* once, most recent first, min(limit, number of matches) of them, and no
\* omitted match is more recent than a returned one.
C10_WindowCorrectness ==
  [][ (~lastQuery.called /\ lastQuery'.called) =>
    LET q == lastQuery'
        res == q.result
    IN /\ \A i \in 1..Len(res) :
            \E k \in Matching(q) :
              /\ res[i].id = store[k].id /\ res[i].guid = store[k].guid
              /\ res[i].pubDate = store[k].pubDate
              /\ res[i].sourceFeedIds = store[k].sourceFeedIds
       /\ \A i, j \in 1..Len(res) : i # j => res[i].id # res[j].id
       /\ Len(res) = MinOf(q.limit, Cardinality(Matching(q)))
       /\ \A i, j \in 1..Len(res) : i < j => res[i].pubDate >= res[j].pubDate
       /\ \A k \in Matching(q) \ Returned(q) :
            \A i \in 1..Len(res) : store[k].pubDate <= res[i].pubDate
       /\ Cardinality(Matching(q)) <= q.limit => Returned(q) = Matching(q) ]_vars

\* A response of two rows just read from the store as it is: both stored
\* articles match, the limit cuts neither, and the rows come in the reverse
\* of the store's order, the more recent first.
C10_Witness ==
  /\ lastQuery.called
  /\ lastQuery.result = getArticlesByFeedsAndDateRange(store, lastQuery.feedIds,
                           lastQuery.startDate, lastQuery.endDate, lastQuery.limit)
  /\ Len(lastQuery.result) = 2
  /\ Cardinality(Matching(lastQuery)) = 2
  /\ lastQuery.result[1].pubDate > lastQuery.result[2].pubDate
  /\ lastQuery.result[1].id > lastQuery.result[2].id

\* C11: every article returned by getArticlesByFeedsAndDateRange carries a
\* sourceCount equal to the length of its sourceFeedIds and equal to the
\* number of distinct feeds recorded for its guid, whatever interleaving of
\* createRssArticle calls built the collection.
C11_SourceCountIsDistinctFeeds ==
  lastQuery.called =>
    \A i \in 1..Len(lastQuery.result) :
      /\ lastQuery.result[i].sourceCount = Len(lastQuery.result[i].sourceFeedIds)
      /\ lastQuery.result[i].sourceCount =
           Cardinality(Elems(lastQuery.result[i].sourceFeedIds))

\* C20: two createRssArticle calls for one unseen guid from different feeds,
\* both of which looked the guid up before either wrote and both of which
\* have ended without a connection-level failure, leave both feed ids in the
\* stored article's sourceFeedIds.
C20_NoObservationLostInCreateRace ==
  \A p, q \in Procs :
    ( /\ p # q /\ Started(p) /\ Started(q)
      /\ GuidOf(p) = GuidOf(q) /\ FeedOf(p) # FeedOf(q)
      /\ existing[p] = <<>> /\ existing[q] = <<>>
      /\ reobs[p] = FALSE /\ reobs[q] = FALSE
      /\ ret[p].status # "none" /\ ret[q].status # "none"
      /\ ret[p].error \notin OtherErrors /\ ret[q].error \notin OtherErrors )
    => \E k \in 1..Len(store) :
         /\ store[k].guid = GuidOf(p)
         /\ {FeedOf(p), FeedOf(q)} \subseteq Elems(store[k].sourceFeedIds)

\* The case table of the author normalizer as the claim states it: a string
\* is returned unchanged, the empty string included.
StatedCaseTable(author) ==
  CASE author.t \in {"null", "undefined"} -> NullStr
    [] author.t = "string" -> Str(author.s)
    [] author.t = "object" /\ author.name.nt = "array" -> Str(Join(author.name.na, ", "))
    [] author.t = "object" /\ author.name.nt = "string" -> Str(author.name.ns)
    [] OTHER -> NullStr

\* The case table with the empty string treated as no author.
FalsyAwareCaseTable(author) ==
  CASE author.t \in {"null", "undefined"} -> NullStr
    [] author.t = "string" -> IF author.s = "" THEN NullStr ELSE Str(author.s)
    [] author.t = "object" /\ author.name.nt = "array" -> Str(Join(author.name.na, ", "))
    [] author.t = "object" /\ author.name.nt = "string" ->
         IF author.name.ns = "" THEN NullStr ELSE Str(author.name.ns)
    [] OTHER -> NullStr

\* C19 as stated: getAuthorString agrees with the case table in which any
\* string, the empty string included, is returned unchanged.
C19_AgreesWithStatedTable ==
  authorOut.called => authorOut.result = StatedCaseTable(authorIn)

\* C19 amended: getAuthorString agrees with the case table in which null,
\* undefined and the empty string (as the author or as an object's name) give
\* null, a non-empty string is returned unchanged, an object's name array is
\* joined with ", ", a non-empty name string is returned, and every other
\* shape gives null; the stored author is the result or "Demo user".
C19_AgreesWithFalsyAwareTable ==
  /\ authorOut.called => authorOut.result = FalsyAwareCaseTable(authorIn)
  /\ authorStored # <<>> =>
       authorStored[1] = IF FalsyAwareCaseTable(authorIn).isNull THEN "Demo user"
                         ELSE FalsyAwareCaseTable(authorIn).str

C19_Witness ==
  /\ authorIn = JsString("")
  /\ authorOut.called
  /\ authorOut.result = NullStr
  /\ authorStored = << "Demo user" >>

\* C12: in one mounted session the prepare request is sent at most once and
\* submit is called at most once, and only after the prepare request was
\* sent, across every re-render, change of search parameters and prepare
\* outcome; in particular nothing is submitted again after a failure.
C12_SingleFire ==
  /\ Len(prepareCalls) <= 1
  /\ Len(submitCalls) <= 1
  /\ Len(submitCalls) <= Len(prepareCalls)

\* The generation failed, the page was navigated to another valid request and
\* has rendered again, and still one prepare and one submit were made.
C12_Witness ==
  /\ error /\ ~RenderPending
  /\ ParseParams(search) # <<>>
  /\ Len(prepareCalls) = 1 /\ prepareCalls[1] # ParseParams(search)[1]
  /\ Len(submitCalls) = 1

\* C13: once the page has rendered on valid search parameters and no prepare
\* request is in flight, these parameters have been submitted: a request the
\* mounted page is navigated to is started like the first one.
C13_ChangedRequestIsSubmitted ==
  (~RenderPending /\ ParseParams(search) # <<>> /\ ~PrepInFlight)
    => \E k \in 1..Len(submitCalls) : submitCalls[k] = ParseParams(search)[1]

\* C14: prepare is best-effort: whenever startGeneration is waiting for the
\* prepare request or its body, it goes on to submit the captured params,
\* whatever the outcome; the generation is in error only after a submit.
C14_PrepareIsBestEffort ==
  /\ [](error => Len(submitCalls) = 1)
  /\ (PrepInFlight ~> (prep.pc = "done" /\ submitCalls = << prep.params[1] >>))

\* A prepare failure was reported and the generation is streaming.
C14_Witness ==
  /\ errorToasts \cap {"unexpected", "prepare-failed"} # {}
  /\ isLoading
  /\ submitCalls = << prep.params[1] >>

\* saveGeneratedNewsletter calls made so far, settled or not, without their
\* outcome; their number.
SaveInvoked == { [input |-> c.input, state |-> c.state] :
                   c \in BagToSet(pendingSaves) \cup BagToSet(saveCalls) }
SaveInvocations == BagCardinality(pendingSaves) + BagCardinality(saveCalls)
\* The calls the server has run.
SaveRun == { c \in BagToSet(pendingSaves) \cup BagToSet(saveCalls) : c.out # "pending" }

\* Search parameters that denote a generation request: the three required
\* parameters are present and feedIds is a non-empty JSON array.
WellFormedSearch(q) ==
  /\ Truthy(q.feedIds) /\ Truthy(q.startDate) /\ Truthy(q.endDate)
  /\ ~JsonParse(q.feedIds[1]).threw
  /\ JsonParse(q.feedIds[1]).kind = "array"
  /\ Len(JsonParse(q.feedIds[1]).items) > 0
WellFormedParams(p) == p.feedIds.kind = "array" /\ Len(p.feedIds.items) > 0

\* C15: while the search parameters do not denote a request with a non-empty
\* set of feeds, no prepare request is sent and saveGeneratedNewsletter is not
\* invoked, and every submit carries a non-empty set of feeds.
C15_InvalidRequestRejected ==
  [][ /\ ~WellFormedSearch(search) =>
          (prepareCalls' = prepareCalls /\ SaveInvocations' = SaveInvocations)
      /\ \A k \in 1..Len(submitCalls') : WellFormedParams(submitCalls'[k]) ]_vars

\* C16: saveGeneratedNewsletter is only invoked when the generation is
\* Complete, never while Streaming or after it Failed.
C16_SaveOnlyWhenComplete ==
  \A c \in SaveInvoked : c.state = "Complete"

ArrayFields == {"suggestedTitles", "suggestedSubjectLines", "topAnnouncements"}
ShapeOk(n) == \A f \in ArrayFields : n[f] # <<>> /\ Len(n[f][1]) = RequiredLength

\* C17: every persisted newsletter has exactly RequiredLength suggestedTitles,
\* suggestedSubjectLines and topAnnouncements and is the newsletter that was
\* handed to saveGeneratedNewsletter; a save of any other shape ends with a
\* validation error and persists nothing.
C17_SaveEnforcesShape ==
  /\ \A r \in BagToSet(saved) :
       ShapeOk(r.newsletter) /\ \E c \in SaveRun : c.input = r
  /\ \A c \in SaveRun :
       IF ShapeOk(c.input.newsletter)
       THEN c.out = "ok" /\ BagIn(c.input, saved)
       ELSE c.out = "ValidationError" /\ ~BagIn(c.input, saved)

\* A completed newsletter with 4 suggestedTitles was refused and one of the
\* required shape was persisted.
C17_Witness ==
  /\ \E c \in BagToSet(saveCalls) :
       /\ c.state = "Complete"
       /\ c.input.newsletter.suggestedTitles = << Items(RequiredLength - 1) >>
       /\ c.out = "ValidationError"
  /\ "save-failed" \in errorToasts
  /\ saved = EmptyBag

\* C18: the completion toast is shown exactly once when the generation is
\* Complete and the page has rendered, and never before.
C18_CompletionNotifiedOnce ==
  /\ (GenState = "Complete" /\ ~RenderPending) => completionToasts = 1
  /\ GenState # "Complete" => completionToasts = 0
====
